---- MODULE Spec2Model ----
(***************************************************************************)
(* Model of cob_robot_calibration_est/sensors/camera_chain_sensor.py:      *)
(* CameraChainBundler.build_blocks and the CameraChainSensor measurement   *)
(* model (update_config, compute_expected, compute_residual, compute_cov,  *)
(* build_sparsity_dict).                                                    *)
(*                                                                          *)
(* Numbers are integers: one unit of a joint position is the finite        *)
(* difference step of compute_cov, so a perturbed joint state is exact.     *)
(***************************************************************************)
EXTENDS Integers, Sequences, FiniteSets, TLC

VARIABLES valid_configs, M_robot, sensors, ret, rebound

vars == <<valid_configs, M_robot, sensors, ret, rebound>>

(* ------------------------------ bounds --------------------------------- *)

\* Longest list of configuration descriptors handed to the bundler.
MaxConfigs == 3

\* Largest number of image points of a camera reading, and of target points.
MaxPts == 3

\* The successful update_config calls of one sensor are counted up to here.
MaxRebinds == 2

(* --------------------------- Python values ----------------------------- *)

\* Python's None as a chain identifier (config["chain"]["chain_id"] == None).
None == "None"

\* Python's None as a chain measurement (M_chain = None).
NoChain == [chain_id |-> None, position |-> <<>>]

\* An attribute that update_config has not assigned yet.
Unset == [unset |-> TRUE]

(* ------------------------------ sample --------------------------------- *)

\* Image point k of a camera reading (pt.x, pt.y).
ImagePoint(k) == <<k, 2 * k + 1>>

CameraMeasurement(id, n) ==
    [camera_id |-> id, image_points |-> [k \in 1..n |-> ImagePoint(k)]]

ChainMeasurement(id, pos) == [chain_id |-> id, position |-> pos]

CameraIds == {"cam", "cam2"}

ChainIds == {"arm", "leg"}

\* The camera_id of every camera reading: [ x.camera_id for x in M_robot.M_cam ].
CamIdList(M) == [i \in 1..Len(M.M_cam) |-> M.M_cam[i].camera_id]

\* The chain_id of every chain reading: [ x.chain_id for x in M_robot.M_chain ].
ChainIdList(M) == [i \in 1..Len(M.M_chain) |-> M.M_chain[i].chain_id]

\* Python's "v in list".
In(v, list) == \E i \in 1..Len(list) : list[i] = v

\* Python's list.index(v): the first position holding v.
Index(list, v) ==
    CHOOSE i \in 1..Len(list) :
        list[i] = v /\ \A j \in 1..(i - 1) : list[j] # v

(* ------------------------------ sensor --------------------------------- *)

\* CameraChainSensor.__init__: the object right after construction. _camera is
\* not assigned, and the FullChainRobotParams it builds holds no parameters.
CameraChainSensor(config_dict, M_cam, M_chain) ==
    [ sensor_id   |-> config_dict.camera_id,
      config_dict |-> config_dict,
      M_cam       |-> M_cam,
      M_chain     |-> M_chain,
      camera      |-> Unset,
      chain       |-> Unset ]

(* ------------------------------ bundler -------------------------------- *)

\* The if / elif / else on the descriptor's chain identifier (lines 85-96):
\* the last branch prints and leaves the loop.
ChainBranch(cur_config, M) ==
    IF In(cur_config.chain.chain_id, ChainIdList(M)) THEN "chain"
    ELSE IF cur_config.chain.chain_id = None THEN "camera_only"
    ELSE "break"

\* The sensor build_blocks constructs for a descriptor found in the sample.
BlockFor(cur_config, M) ==
    LET cam == M.M_cam[Index(CamIdList(M), cur_config.camera_id)]
    IN  IF ChainBranch(cur_config, M) = "chain"
        THEN CameraChainSensor(cur_config, cam,
                 M.M_chain[Index(ChainIdList(M), cur_config.chain.chain_id)])
        ELSE CameraChainSensor(cur_config, cam, NoChain)

\* The for loop of build_blocks from descriptor i on, with the list built so far.
RECURSIVE BuildLoop(_, _, _, _)
BuildLoop(configs, M, i, acc) ==
    IF i > Len(configs) THEN acc
    ELSE IF In(configs[i].camera_id, CamIdList(M))
         THEN IF ChainBranch(configs[i], M) = "break"
              THEN acc
              ELSE BuildLoop(configs, M, i + 1, Append(acc, BlockFor(configs[i], M)))
         ELSE BuildLoop(configs, M, i + 1, acc)

(* --------------------------- parameter snapshot ------------------------ *)

\* A Python dict is a function; a lookup of a missing key raises KeyError.
HasKey(d, k) == k \in DOMAIN d

EmptyDict == <<>>

\* RectifiedCamera parameters: the intrinsic shift the projection uses, the
\* pixel noise _cov_dict['u'], _cov_dict['v'], and get_param_names().
CamA == [cx_shift |-> 0, cov_u |-> 1, cov_v |-> 2, param_names |-> {"cx_shift", "f_shift"}]

CamB == [cx_shift |-> 1, cov_u |-> 2, cov_v |-> 1, param_names |-> {"cx_shift", "f_shift"}]

CamC == [cx_shift |-> 1, cov_u |-> 2, cov_v |-> 1, param_names |-> {"cx_shift"}]

\* A DH chain of the snapshot: _M links, a gearing and _cov_dict['joint_angles'].
DhChain(M, g) == [M |-> M, gearing |-> g, joint_angles |-> [i \in 1..M |-> i]]

\* The chain of a descriptor whose chain_id is None.
NoDhChain == [M |-> 0, gearing |-> 0, joint_angles |-> <<>>]

RobotParams ==
    [ rectified_cams : {EmptyDict, [c \in {"cam"} |-> CamA], [c \in {"cam"} |-> CamB],
                        [c \in {"cam"} |-> CamC]},
      transforms     : {EmptyDict, [t \in {"T2"} |-> 0], [t \in {"T1", "T2"} |-> 1]},
      dh_chains      : {EmptyDict, [c \in {"arm"} |-> DhChain(1, 1)],
                        [c \in {"arm"} |-> DhChain(2, 1)], [c \in {"arm"} |-> DhChain(2, 2)]} ]

(* ------------------- FullChainRobotParams (full_chain.py) -------------- *)

AllIn(names, d) == \A k \in 1..Len(names) : HasKey(d, names[k])

\* FullChainRobotParams.update_config succeeds when the snapshot holds every
\* before/after transform and the chain the descriptor names.
ChainResolves(chain_cfg, robot_params) ==
    /\ AllIn(chain_cfg.before_chain, robot_params.transforms)
    /\ AllIn(chain_cfg.after_chain, robot_params.transforms)
    /\ chain_cfg.chain_id # None => HasKey(robot_params.dh_chains, chain_cfg.chain_id)

\* The calc block FullChainRobotParams.update_config installs.
CalcBlock(chain_cfg, robot_params) ==
    [ before_chain_Ts |-> [k \in 1..Len(chain_cfg.before_chain) |->
                              robot_params.transforms[chain_cfg.before_chain[k]]],
      chain           |-> IF chain_cfg.chain_id = None THEN NoDhChain
                          ELSE robot_params.dh_chains[chain_cfg.chain_id],
      after_chain_Ts  |-> [k \in 1..Len(chain_cfg.after_chain) |->
                              robot_params.transforms[chain_cfg.after_chain[k]]] ]

RECURSIVE SumSeq(_)
SumSeq(q) == IF q = <<>> THEN 0 ELSE Head(q) + SumSeq(Tail(q))

Ok(v) == [outcome |-> "ok", value |-> v]

Raise(e) == [outcome |-> e, value |-> <<>>]

\* calc_block.fk(chain_state): the camera pose in the root frame, a stub in
\* which joint i moves the pose by gearing * i per unit. chain_state is
\* NoChain.position for a camera without a chain.
fk(block, has_chain, position) ==
    IF block = Unset THEN Raise("AttributeError")
    ELSE IF has_chain /\ Len(position) # block.chain.M THEN Raise("InvalidJointCount")
    ELSE Ok(SumSeq(block.before_chain_Ts)
            + (IF has_chain
               THEN block.chain.gearing * SumSeq([i \in 1..Len(position) |-> i * position[i]])
               ELSE 0)
            + SumSeq(block.after_chain_Ts))

\* camera.project(P, camera_pose_root.I * target_pts): one pixel per target point.
project(camera, pose, target_pts) ==
    [k \in 1..Len(target_pts) |->
        <<target_pts[k][1] - pose + camera.cx_shift, target_pts[k][2] - pose>>]

(* ------------------------- CameraChainSensor --------------------------- *)

\* An update_config that keeps the camera it resolved first.
BindCamera_cached(s, robot_params) ==
    IF s.camera # Unset THEN s.camera
    ELSE robot_params.rectified_cams[s.config_dict.camera_id]

\* self._camera = robot_params.rectified_cams[camera_id]  (line 131)
BindCamera(s, robot_params) == robot_params.rectified_cams[s.config_dict.camera_id]

\* The state of the sensor after update_config(robot_params), and how the call ended.
UpdateConfig(s, robot_params) ==
    IF ~HasKey(robot_params.rectified_cams, s.config_dict.camera_id)
    THEN [outcome |-> "KeyError", sensor |-> s]
    ELSE LET s1 == [s EXCEPT !.camera = BindCamera(s, robot_params)]
         IN  IF ~ChainResolves(s.config_dict.chain, robot_params)
             THEN [outcome |-> "KeyError", sensor |-> s1]
             ELSE [outcome |-> "ok",
                   sensor  |-> [s1 EXCEPT !.chain = CalcBlock(s.config_dict.chain, robot_params)]]

HasChain(s) == s.M_chain # NoChain

\* get_residual_length
get_residual_length(s) == Len(s.M_cam.image_points) * 2

\* get_measurement: the observed pixels, one row per image point.
get_measurement(s) == s.M_cam.image_points

\* _compute_expected(chain_state, target_pts)
ComputeExpectedAt(s, has_chain, position, target_pts) ==
    LET pose == fk(s.chain, has_chain, position)
    IN  IF pose.outcome # "ok" THEN pose
        ELSE IF s.camera = Unset THEN Raise("AttributeError")
        ELSE Ok(project(s.camera, pose.value, target_pts))

\* compute_expected(target_pts)
compute_expected(s, target_pts) ==
    ComputeExpectedAt(s, HasChain(s), s.M_chain.position, target_pts)

\* numpy's h_mat - z_mat on an Nh x 2 and an Nz x 2 matrix: elementwise, with a
\* one-row operand broadcast over the other's rows.
Broadcastable(nh, nz) == nh = nz \/ nh = 1 \/ nz = 1

MatSub(h, z) ==
    LET n == IF Len(h) >= Len(z) THEN Len(h) ELSE Len(z)
        row(m, k) == IF Len(m) = 1 THEN m[1] ELSE m[k]
    IN  [k \in 1..n |-> <<row(h, k)[1] - row(z, k)[1], row(h, k)[2] - row(z, k)[2]>>]

\* reshape(m, [-1]): row-major flattening, [u1, v1, u2, v2, ...], indexed from 0.
Flatten(m) == [j \in 0..(2 * Len(m) - 1) |-> m[(j \div 2) + 1][(j % 2) + 1]]

\* The length of a vector indexed from 0.
VecLen(v) == Cardinality(DOMAIN v)

\* The third assertion of compute_residual, as written (line 148).
ShapeAssert(z_mat, h_mat) == Len(z_mat) = Len(z_mat)

\* compute_residual(target_pts)
compute_residual(s, target_pts) ==
    LET z_mat == get_measurement(s)
        h     == compute_expected(s, target_pts)
    IN  IF h.outcome # "ok" THEN h
        ELSE IF ~ShapeAssert(z_mat, h.value) THEN Raise("AssertionError")
        ELSE IF ~Broadcastable(Len(h.value), Len(z_mat)) THEN Raise("ValueError")
        ELSE Ok(Flatten(MatSub(h.value, z_mat)))

(* ------------------------------ compute_cov ---------------------------- *)

\* The finite difference step of compute_cov, in units of a joint position.
Epsilon == 1

\* A Python list object: its items, and whether it is the very list object
\* held by self._M_chain.chain_state.position.
\* x.position = self._M_chain.chain_state.position, without the copy.
NewJointList_alias(position) == [pos |-> position, alias |-> TRUE]

\* x.position = [cur_pos for cur_pos in self._M_chain.chain_state.position]
NewJointList(position) == [pos |-> position, alias |-> FALSE]

\* x.position[i] += epsilon
Perturb(x, i) == [x EXCEPT !.pos[i] = @ + Epsilon]

\* Jt[i] = (fTest - f0) / epsilon
JtRow(fTest, f0) == [j \in DOMAIN f0 |-> (fTest[j] - f0[j]) \div Epsilon]

\* The loop over the joints (lines 267-271) from joint i on. position is the
\* chain reading's own list, states the joint state each row was computed from.
RECURSIVE CovLoop(_, _, _, _, _, _, _)
CovLoop(s, target_pts, i, position, f0, Jt, states) ==
    IF i > Len(s.M_chain.position)
    THEN [outcome |-> "ok", Jt |-> Jt, states |-> states, position |-> position]
    ELSE LET x0    == NewJointList(position)
             x     == Perturb(x0, i)
             pos1  == IF x.alias THEN x.pos ELSE position
             fTest == ComputeExpectedAt(s, TRUE, x.pos, target_pts)
         IN  IF fTest.outcome # "ok"
             THEN [outcome |-> fTest.outcome, Jt |-> Jt, states |-> states, position |-> pos1]
             ELSE IF 2 * Len(target_pts) # get_residual_length(s)
             THEN [outcome |-> "ValueError", Jt |-> Jt, states |-> states, position |-> pos1]
             ELSE CovLoop(s, target_pts, i + 1, pos1, f0,
                          Append(Jt, JtRow(Flatten(fTest.value), f0)),
                          Append(states, x.pos))

\* cov_angles = [x*x for x in ..._cov_dict['joint_angles']]
CovAngles(s) == [i \in 1..Len(s.chain.chain.joint_angles) |->
                    s.chain.chain.joint_angles[i] * s.chain.chain.joint_angles[i]]

\* chain_cov = matrix(Jt).T * matrix(diag(cov_angles)) * matrix(Jt)
ChainCov(Jt, cov_angles, n) ==
    [rc \in (0..(n - 1)) \X (0..(n - 1)) |->
        SumSeq([i \in 1..Len(Jt) |-> Jt[i][rc[1]] * cov_angles[i] * Jt[i][rc[2]]])]

\* A loop that writes var_u to both entries of a point.
CamCovEntry_uOnly(camera, r, c) ==
    IF r # c THEN 0 ELSE camera.cov_u * camera.cov_u

\* var_u, var_v and the entry the loop of lines 282-284 leaves at (r, c).
CamCovEntry(camera, r, c) ==
    IF r # c THEN 0
    ELSE IF r % 2 = 0 THEN camera.cov_u * camera.cov_u
    ELSE camera.cov_v * camera.cov_v

\* cam_cov: get_residual_length() square, filled by CamCovEntry.
CamCov(s) ==
    LET n == get_residual_length(s)
    IN  [rc \in (0..(n - 1)) \X (0..(n - 1)) |-> CamCovEntry(s.camera, rc[1], rc[2])]

\* chain_cov + cam_cov
MatAdd(a, b) == [rc \in DOMAIN a |-> a[rc] + b[rc]]

\* compute_cov(target_pts): how it ends, the matrix, the joint state of every
\* row of Jt, and the chain reading's joint positions when it ends.
compute_cov(s, target_pts) ==
    LET none == <<>>
        fail(e, pos) == [outcome |-> e, value |-> none, states |-> <<>>, position |-> pos]
    IN  IF HasChain(s)
        THEN LET x  == NewJointList(s.M_chain.position)
                 f0 == ComputeExpectedAt(s, TRUE, x.pos, target_pts)
             IN  IF f0.outcome # "ok" THEN fail(f0.outcome, s.M_chain.position)
                 ELSE LET loop == CovLoop(s, target_pts, 1, s.M_chain.position,
                                          Flatten(f0.value), <<>>, <<>>)
                      IN  IF loop.outcome # "ok" THEN fail(loop.outcome, loop.position)
                          ELSE [ outcome  |-> "ok",
                                 value    |-> MatAdd(ChainCov(loop.Jt, CovAngles(s),
                                                              get_residual_length(s)),
                                                     CamCov(s)),
                                 states   |-> loop.states,
                                 position |-> loop.position ]
        ELSE IF s.camera = Unset THEN fail("AttributeError", s.M_chain.position)
        ELSE [outcome |-> "ok", value |-> CamCov(s), states |-> <<>>,
              position |-> s.M_chain.position]

\* compute_residual_scaled(target_pts): gamma_sqrt * r. The square roots of the
\* 2x2 blocks are not computed here: the value keeps the two operands.
compute_residual_scaled(s, target_pts) ==
    LET r   == compute_residual(s, target_pts)
        cov == compute_cov(s, target_pts)
    IN  IF r.outcome # "ok" THEN r
        ELSE IF cov.outcome # "ok" THEN Raise(cov.outcome)
        ELSE IF VecLen(r.value) # get_residual_length(s) THEN Raise("ValueError")
        ELSE Ok([r |-> r.value, cov |-> cov.value])

(* --------------------------- build_sparsity_dict ----------------------- *)

\* build_sparsity_dict without its assertion.
NumLinksAssert_dropped(num_links, position) == TRUE

\* assert(num_links == len(self._M_chain.chain_state.position))  (line 325)
NumLinksAssert(num_links, position) == num_links = Len(position)

SeqToSet(q) == {q[k] : k \in 1..Len(q)}

\* build_sparsity_dict()
build_sparsity_dict(s) ==
    LET chain_cfg  == s.config_dict.chain
        transforms == [t \in SeqToSet(chain_cfg.before_chain \o chain_cfg.after_chain) |->
                          <<1, 1, 1, 1, 1, 1>>]
        num_links  == s.chain.chain.M
        dh_chains  == IF HasChain(s)
                      THEN [c \in {chain_cfg.chain_id} |->
                               [dh      |-> [l \in 1..num_links |-> <<1, 1, 1, 1>>],
                                gearing |-> [l \in 1..num_links |-> 1]]]
                      ELSE EmptyDict
    IN  IF HasChain(s) /\ s.chain = Unset THEN Raise("AttributeError")
        ELSE IF HasChain(s) /\ ~NumLinksAssert(num_links, s.M_chain.position)
             THEN Raise("AssertionError")
        ELSE IF s.camera = Unset THEN Raise("AttributeError")
        ELSE Ok([ transforms     |-> transforms,
                  dh_chains      |-> dh_chains,
                  rectified_cams |-> [c \in {s.sensor_id} |->
                                         [x \in s.camera.param_names |-> 1]] ])

(* ------------------------------- operations ---------------------------- *)

\* A target of n points (the x and y rows of the 4xN matrix).
TargetPts(n) == [k \in 1..n |-> <<k, 2 * k + 1>>]

TargetSets == {TargetPts(n) : n \in 1..MaxPts}

NoTarget == <<>>

MkRet(op, i, target_pts, outcome, value, states) ==
    [op |-> op, outcome |-> outcome, sensor |-> i, target_pts |-> target_pts,
     value |-> value, states |-> states]

\* What is remembered of the update_config calls of one sensor: whether the last
\* one succeeded, the snapshot it was given, and how many have succeeded.
NoRebind == [ok |-> FALSE, robot_params |-> EmptyDict, n |-> 0]

\* CameraChainBundler.build_blocks(M_robot): always a normal return.
build_blocks ==
    /\ ret.op = "none"
    /\ sensors' = BuildLoop(valid_configs, M_robot, 1, <<>>)
    /\ ret' = MkRet("build_blocks", 0, NoTarget, "ok", <<>>, <<>>)
    /\ rebound' = [k \in 1..Len(sensors') |-> NoRebind]
    /\ UNCHANGED <<valid_configs, M_robot>>

\* sensors[i].update_config(robot_params)
update_config(i, robot_params) ==
    LET u == UpdateConfig(sensors[i], robot_params)
    IN  /\ sensors' = [sensors EXCEPT ![i] = u.sensor]
        /\ ret' = MkRet("update_config", i, NoTarget, u.outcome, <<>>, <<>>)
        /\ rebound' = [rebound EXCEPT ![i] =
                          IF u.outcome = "ok"
                          THEN [ok |-> TRUE, robot_params |-> robot_params,
                                n  |-> IF rebound[i].n < MaxRebinds THEN rebound[i].n + 1
                                       ELSE rebound[i].n]
                          ELSE [ok |-> FALSE, robot_params |-> EmptyDict, n |-> rebound[i].n]]
        /\ UNCHANGED <<valid_configs, M_robot>>

\* sensors[i].compute_expected(target_pts)
expected(i, target_pts) ==
    LET r == compute_expected(sensors[i], target_pts)
    IN  /\ ret' = MkRet("compute_expected", i, target_pts, r.outcome, r.value, <<>>)
        /\ UNCHANGED <<valid_configs, M_robot, sensors, rebound>>

\* sensors[i].compute_residual(target_pts)
residual(i, target_pts) ==
    LET r == compute_residual(sensors[i], target_pts)
    IN  /\ ret' = MkRet("compute_residual", i, target_pts, r.outcome, r.value, <<>>)
        /\ UNCHANGED <<valid_configs, M_robot, sensors, rebound>>

\* sensors[i].compute_residual_scaled(target_pts)
residual_scaled(i, target_pts) ==
    LET r == compute_residual_scaled(sensors[i], target_pts)
        c == compute_cov(sensors[i], target_pts)
    IN  /\ ret' = MkRet("compute_residual_scaled", i, target_pts, r.outcome, r.value, <<>>)
        /\ sensors' = [sensors EXCEPT ![i].M_chain.position = c.position]
        /\ UNCHANGED <<valid_configs, M_robot, rebound>>

\* sensors[i].compute_cov(target_pts)
covariance(i, target_pts) ==
    LET c == compute_cov(sensors[i], target_pts)
    IN  /\ ret' = MkRet("compute_cov", i, target_pts, c.outcome, c.value, c.states)
        /\ sensors' = [sensors EXCEPT ![i].M_chain.position = c.position]
        /\ UNCHANGED <<valid_configs, M_robot, rebound>>

\* sensors[i].build_sparsity_dict()
sparsity(i) ==
    LET r == build_sparsity_dict(sensors[i])
    IN  /\ ret' = MkRet("build_sparsity_dict", i, NoTarget, r.outcome, r.value, <<>>)
        /\ UNCHANGED <<valid_configs, M_robot, sensors, rebound>>

(* --------------------- one sample, bundled and evaluated --------------- *)

Descriptor(cam, chain_id, before) ==
    [ camera_id |-> cam,
      chain |-> [before_chain |-> before, chain_id |-> chain_id,
                 after_chain |-> <<"T2">>] ]

SensorDescriptors == {Descriptor("cam", ch, b) : ch \in {None, "arm"}, b \in {<<>>, <<"T1">>}}

JointStates == {<<1>>, <<2, 1>>}

Init ==
    /\ valid_configs \in {<<d>> : d \in SensorDescriptors}
    /\ M_robot \in [ M_cam   : {<<CameraMeasurement("cam", n)>> : n \in 1..MaxPts},
                     M_chain : {<<ChainMeasurement("arm", q)>> : q \in JointStates} ]
    /\ sensors = <<>>
    /\ ret = MkRet("none", 0, NoTarget, "ok", <<>>, <<>>)
    /\ rebound = <<>>

Next ==
    \/ build_blocks
    \/ \E i \in 1..Len(sensors) :
          \/ \E robot_params \in RobotParams : update_config(i, robot_params)
          \/ \E target_pts \in TargetSets :
                \/ expected(i, target_pts)
                \/ residual(i, target_pts)
                \/ residual_scaled(i, target_pts)
                \/ covariance(i, target_pts)
          \/ sparsity(i)

Spec == Init /\ [][Next]_vars

(* ----------------------- the bundler on its own ------------------------ *)

BundlerDescriptors ==
    {Descriptor(c, ch, <<"T1">>) : c \in CameraIds, ch \in ChainIds \cup {None}}

SeqsUpTo(S, n) == UNION {[1..k -> S] : k \in 0..n}

\* Readings of distinct identifiers, in either order.
ReadingLists(S) ==
    {<<>>} \cup {<<a>> : a \in S}
        \cup {p \in {<<a, b>> : a \in S, b \in S} : p[1] # p[2]}

BundlerSamples ==
    [ M_cam   : ReadingLists({CameraMeasurement(c, 1) : c \in CameraIds}),
      M_chain : ReadingLists({ChainMeasurement(ch, <<1>>) : ch \in ChainIds}) ]

InitBundler ==
    /\ valid_configs \in SeqsUpTo(BundlerDescriptors, MaxConfigs)
    /\ M_robot \in BundlerSamples
    /\ sensors = <<>>
    /\ ret = MkRet("none", 0, NoTarget, "ok", <<>>, <<>>)
    /\ rebound = <<>>

NextBundler == build_blocks

SpecBundler == InitBundler /\ [][NextBundler]_vars

(* ------------------------------- the claims ---------------------------- *)

\* The spec's names for the way a call ends.
NotBound == "AttributeError"

UnknownParameterId == "KeyError"

DimensionMismatch == {"AssertionError", "ValueError"}

EvalOps == {"compute_expected", "compute_residual", "compute_residual_scaled", "compute_cov"}

CamPresent(d) == In(d.camera_id, CamIdList(M_robot))

ChainPresent(d) == In(d.chain.chain_id, ChainIdList(M_robot))

\* C1: when some descriptor's camera is in the sample and its non-null chain
\* identifier is not, build_blocks ends in the error UnknownChainReference
\* instead of returning a list.
C1_UnknownChainReference ==
    (/\ ret.op = "build_blocks"
     /\ \E j \in 1..Len(valid_configs) :
           /\ CamPresent(valid_configs[j])
           /\ valid_configs[j].chain.chain_id # None
           /\ ~ChainPresent(valid_configs[j]))
    => ret.outcome = "UnknownChainReference"

\* C8: a descriptor whose camera is absent from the sample yields no sensor, and
\* every descriptor after it whose camera (and chain, if it declares one) is in
\* the sample yields its sensor, bound to the readings of those identifiers.
C8_SkipDoesNotStop ==
    ret.op = "build_blocks" =>
        /\ \A k \in 1..Len(sensors) : CamPresent(sensors[k].config_dict)
        /\ \A j \in 1..Len(valid_configs) :
              (/\ \E i \in 1..(j - 1) : ~CamPresent(valid_configs[i])
               /\ CamPresent(valid_configs[j])
               /\ valid_configs[j].chain.chain_id = None \/ ChainPresent(valid_configs[j]))
              => \E k \in 1..Len(sensors) : sensors[k] = BlockFor(valid_configs[j], M_robot)

\* C2: an evaluation of a sensor on which no update_config has succeeded ends
\* in NotBound and returns nothing.
C2_NotBound ==
    (ret.op \in EvalOps /\ rebound[ret.sensor].n = 0) => ret.outcome = NotBound

\* C3: an update_config that fails on a sensor never bound before ends in
\* UnknownParameterId and leaves both the camera and the chain unbound.
C3_FailedRebindLeavesUnbound ==
    (ret.op = "update_config" /\ rebound[ret.sensor].n = 0) =>
        /\ ret.outcome = UnknownParameterId
        /\ sensors[ret.sensor].camera = Unset
        /\ sensors[ret.sensor].chain = Unset

\* The sensor is bound: its last update_config succeeded.
Bound(i) == rebound[i].ok

\* C4: compute_residual of a bound sensor with a target whose number of points
\* differs from the number of image points fails with DimensionMismatch.
C4_DimensionMismatch ==
    (/\ ret.op = "compute_residual"
     /\ Bound(ret.sensor)
     /\ compute_expected(sensors[ret.sensor], ret.target_pts).outcome = "ok"
     /\ Len(ret.target_pts) # Len(sensors[ret.sensor].M_cam.image_points))
    => ret.outcome \in DimensionMismatch

\* C7: every vector compute_residual returns has length 2N = get_residual_length()
\* for the N image points, and its entries 2k, 2k+1 are the u and v of
\* expected[k] - observed[k].
C7_ResidualVector ==
    (ret.op = "compute_residual" /\ ret.outcome = "ok") =>
        LET s == sensors[ret.sensor]
            z == get_measurement(s)
            h == compute_expected(s, ret.target_pts).value
            N == Len(z)
        IN  /\ DOMAIN ret.value = 0..(2 * N - 1)
            /\ 2 * N = get_residual_length(s)
            /\ Len(h) = N
            /\ \A k \in 0..(N - 1) :
                  /\ ret.value[2 * k] = h[k + 1][1] - z[k + 1][1]
                  /\ ret.value[2 * k + 1] = h[k + 1][2] - z[k + 1][2]

\* C5 as the spec states it: build_sparsity_dict does not fail because of the
\* rebind state of the sensor.
C5_NeverFailsOnRebindState ==
    ret.op = "build_sparsity_dict" => ret.outcome # NotBound

\* The structural map of a configuration shape: the before/after names, the
\* chain identifier with one row per joint of the chain reading, and the names
\* of the camera parameters.
ShapeMap(config_dict, has_chain, num_joints, param_names) ==
    [ transforms     |-> [t \in SeqToSet(config_dict.chain.before_chain)
                                  \cup SeqToSet(config_dict.chain.after_chain) |->
                             [c \in 1..6 |-> 1]],
      dh_chains      |-> IF has_chain
                         THEN [c \in {config_dict.chain.chain_id} |->
                                  [dh      |-> [l \in 1..num_joints |-> [c4 \in 1..4 |-> 1]],
                                   gearing |-> [l \in 1..num_joints |-> 1]]]
                         ELSE EmptyDict,
      rectified_cams |-> [c \in {config_dict.camera_id} |-> [x \in param_names |-> 1]] ]

\* C5, amended: build_sparsity_dict fails with NotBound on a sensor whose camera
\* has not been bound, and every map it returns is the structural map of the
\* configuration shape, whatever the values of the snapshot are.
C5_SparsityOfShape ==
    ret.op = "build_sparsity_dict" =>
        LET s == sensors[ret.sensor]
        IN  /\ s.camera = Unset => ret.outcome = NotBound
            /\ ret.outcome = "ok" =>
                  ret.value = ShapeMap(s.config_dict, HasChain(s),
                                       Len(s.M_chain.position), s.camera.param_names)

C5_Witness ==
    /\ ret.op = "build_sparsity_dict"
    /\ ret.outcome = "ok"
    /\ HasChain(sensors[ret.sensor])
    /\ rebound[ret.sensor].n = MaxRebinds

\* C6: compute_cov of a sensor without a chain reading returns the 2N x 2N
\* matrix with var_u at (2k, 2k), var_v at (2k+1, 2k+1) and 0 elsewhere.
C6_CameraOnlyCov ==
    (ret.op = "compute_cov" /\ ret.outcome = "ok" /\ ~HasChain(sensors[ret.sensor])) =>
        LET s == sensors[ret.sensor]
            N == Len(s.M_cam.image_points)
        IN  /\ DOMAIN ret.value = (0..(2 * N - 1)) \X (0..(2 * N - 1))
            /\ \A k \in 0..(N - 1) :
                  /\ ret.value[<<2 * k, 2 * k>>] = s.camera.cov_u * s.camera.cov_u
                  /\ ret.value[<<2 * k + 1, 2 * k + 1>>] = s.camera.cov_v * s.camera.cov_v
            /\ \A rc \in DOMAIN ret.value : rc[1] # rc[2] => ret.value[rc] = 0

C6_Witness ==
    /\ ret.op = "compute_cov"
    /\ ret.outcome = "ok"
    /\ ~HasChain(sensors[ret.sensor])
    /\ Bound(ret.sensor)
    /\ Len(sensors[ret.sensor].M_cam.image_points) >= 2

\* The sensor build_blocks made, bound once to robot_params.
FreshlyBound(i, robot_params) ==
    UpdateConfig(BuildLoop(valid_configs, M_robot, 1, <<>>)[i], robot_params).sensor

\* How an evaluation of sensor s ends, and what it returns.
Evaluate(op, s, target_pts) ==
    LET r == CASE op = "compute_expected"        -> compute_expected(s, target_pts)
               [] op = "compute_residual"        -> compute_residual(s, target_pts)
               [] op = "compute_residual_scaled" -> compute_residual_scaled(s, target_pts)
               [] op = "compute_cov"             -> compute_cov(s, target_pts)
    IN  <<r.outcome, r.value>>

\* C9: after an update_config that succeeded, every evaluation gives what a
\* fresh sensor bound once to that call's snapshot gives for the same readings
\* and target points.
C9_NoCacheAcrossRebinds ==
    (ret.op \in EvalOps /\ Bound(ret.sensor)) =>
        <<ret.outcome, ret.value>> =
            Evaluate(ret.op, FreshlyBound(ret.sensor, rebound[ret.sensor].robot_params),
                     ret.target_pts)

C9_Witness ==
    /\ ret.op = "compute_residual"
    /\ ret.outcome = "ok"
    /\ Bound(ret.sensor)
    /\ rebound[ret.sensor].n = MaxRebinds
    /\ HasChain(sensors[ret.sensor])

\* C10: row i of the sensitivity matrix is computed from the chain reading's
\* joint positions with coordinate i alone moved by Epsilon, and the chain
\* reading holds the joint positions of the sample after the call.
C10_OneJointAtATime ==
    (ret.op = "compute_cov" /\ ret.outcome = "ok" /\ HasChain(sensors[ret.sensor])) =>
        LET reading == BuildLoop(valid_configs, M_robot, 1, <<>>)[ret.sensor].M_chain.position
        IN  /\ sensors[ret.sensor].M_chain.position = reading
            /\ Len(ret.states) = Len(reading)
            /\ \A i \in 1..Len(reading) :
                  ret.states[i] = [j \in 1..Len(reading) |->
                                      IF j = i THEN reading[j] + Epsilon ELSE reading[j]]

C10_Witness ==
    /\ ret.op = "compute_cov"
    /\ ret.outcome = "ok"
    /\ HasChain(sensors[ret.sensor])
    /\ Len(ret.states) = 2

====
